---- MODULE Spec2Model ----
(***************************************************************************)
(* Model of netbox/extras/models/customfields.py: the CustomField model,   *)
(* its definition validation (clean), value validation (validate), form    *)
(* field construction (to_form_field) and the three bulk operations that   *)
(* keep custom_field_data of the assigned objects in step with the field   *)
(* (populate_initial_data, remove_stale_data, rename_object_data).         *)
(***************************************************************************)
EXTENDS Integers, Sequences, FiniteSets, TLC

(***************************************************************************)
(* Bounds of the model.                                                    *)
(***************************************************************************)
NumInstances == 2
MaxCrashes == 2

(***************************************************************************)
(* Program constant: batch_size of every bulk_update call.                 *)
(***************************************************************************)
BatchSize == 100

(***************************************************************************)
(* The object store.  Two content types (models), "site" and "device",     *)
(* carry custom fields; the instances 1..NumInstances alternate between    *)
(* them.  custom_field_data of an instance is a JSON object: a function    *)
(* from the keys it holds to JSON values ("None" is JSON null).            *)
(***************************************************************************)
Instances == 1..NumInstances
ModelOf(i) == IF i % 2 = 1 THEN "site" ELSE "device"
\* Names the custom field operated on takes; stored data also holds the key
\* of another field, "c", which no operation of the model is called for.
FieldNames == {"a", "b"}
Keys == FieldNames \cup {"c"}
None == "None"
JsonValues == {None, "v"}
FieldData == UNION {[ks -> JsonValues] : ks \in SUBSET Keys}

\* Lists of content types handed to populate_initial_data and remove_stale_data.
ContentTypeLists == {<<"site">>, <<"site", "device">>}
\* self.content_types of the field that is renamed: "device" is not assigned.
AssignedLists == {<<"site">>}

VARIABLES
    data,       \* the store: custom_field_data of every instance
    before,     \* the store as it was when the last operation was called
    last,       \* the last operation called and its arguments
    repeat,     \* the last call repeated the call before it, argument for argument
    afterPopulate, \* the last call is remove_stale_data right after populate_initial_data of the same field and types
    pc,         \* position of each running bulk operation
    job,        \* operation and arguments of each running bulk operation
    idx,        \* index of the content type a running operation is at
    snap,       \* the instances a running operation has read and mutated in memory
    data0,      \* the store when the running operation(s) first started
    crashes,    \* number of interruptions so far
    partial,    \* an interruption happened after some writes had been persisted
    events,     \* order of the reads and writes of concurrent operations
    cf,         \* the CustomField under validation
    call,       \* last pure method called on cf, with its arguments
    result      \* what that call returned or raised

vars == <<data, before, last, repeat, afterPopulate, pc, job, idx, snap, data0,
          crashes, partial, events, cf, call, result>>

(***************************************************************************)
(* dict operations on custom_field_data.                                   *)
(***************************************************************************)
\* instance.custom_field_data[k] = v
SetKey(m, k, v) == [x \in (DOMAIN m) \cup {k} |-> IF x = k THEN v ELSE m[x]]
\* del(instance.custom_field_data[k])
DelKey(m, k) == [x \in (DOMAIN m) \ {k} |-> m[x]]

(***************************************************************************)
(* Query lookups, as PostgreSQL evaluates them on the jsonb column.        *)
(***************************************************************************)
\* Mutant: containment read as "the object has this key".
JsonbContainsKey(m, s) == s \in DOMAIN m
\* custom_field_data__contains=<str> is jsonb containment (column @> '"str"').
\* The left side is always a JSON object and the right side a JSON string
\* scalar; an object never contains a scalar (only an array or an equal
\* scalar does), so the lookup matches no row whatever keys the object has.
JsonbContains(m, s) == FALSE
\* custom_field_data__<key>__isnull=False is (column -> 'key') IS NOT NULL:
\* -> yields SQL NULL only for a missing key; a key holding JSON null matches.
KeyIsNotNull(m, k) == k \in DOMAIN m

\* model.objects: the instances of one model.
Objects(model) == {i \in Instances : ModelOf(i) = model}

(***************************************************************************)
(* bulk_update(objs, ['custom_field_data'], batch_size=100): the objects   *)
(* are cut into batches of batch_size, one UPDATE per batch, all inside    *)
(* one transaction.  objs maps the primary key of each object to the       *)
(* custom_field_data it holds in memory; the UPDATE writes the whole       *)
(* column value.                                                           *)
(***************************************************************************)
RECURSIVE SortedPks(_)
SortedPks(S) ==
    IF S = {} THEN <<>>
    ELSE LET m == CHOOSE x \in S : \A y \in S : x <= y
         IN <<m>> \o SortedPks(S \ {m})

RECURSIVE Batches(_)
Batches(pks) ==
    IF Len(pks) = 0 THEN <<>>
    ELSE IF Len(pks) <= BatchSize THEN <<pks>>
    ELSE <<SubSeq(pks, 1, BatchSize)>> \o Batches(SubSeq(pks, BatchSize + 1, Len(pks)))

\* Mutant: an UPDATE that writes only the keys the object holds in memory
\* on top of the stored value, instead of replacing the column.
WriteBatchMerge(d, objs, batch) ==
    LET bs == {batch[n] : n \in 1..Len(batch)}
    IN [i \in DOMAIN d |->
          IF i \in bs
          THEN [k \in (DOMAIN d[i]) \cup (DOMAIN objs[i]) |->
                   IF k \in DOMAIN objs[i] THEN objs[i][k] ELSE d[i][k]]
          ELSE d[i]]
\* One UPDATE ... WHERE pk IN batch.
WriteBatch(d, objs, batch) ==
    LET bs == {batch[n] : n \in 1..Len(batch)}
    IN [i \in DOMAIN d |-> IF i \in bs THEN objs[i] ELSE d[i]]

RECURSIVE WriteBatches(_, _, _)
WriteBatches(d, objs, bs) ==
    IF Len(bs) = 0 THEN d
    ELSE WriteBatches(WriteBatch(d, objs, Head(bs)), objs, Tail(bs))

bulk_update(d, objs) == WriteBatches(d, objs, Batches(SortedPks(DOMAIN objs)))

(***************************************************************************)
(* populate_initial_data(self, content_types)                              *)
(***************************************************************************)
\* instances = model.objects.exclude(custom_field_data__contains=self.name)
PopulateInstances(d, model, name) ==
    {i \in Objects(model) : ~JsonbContains(d[i], name)}
\* for instance in instances: instance.custom_field_data[self.name] = self.default
PopulateObjs(d, model, name, default) ==
    [i \in PopulateInstances(d, model, name) |-> SetKey(d[i], name, default)]
\* one pass of the loop over content_types
PopulateModel(d, model, name, default) ==
    bulk_update(d, PopulateObjs(d, model, name, default))

RECURSIVE populate_initial_data(_, _, _, _)
populate_initial_data(d, name, default, cts) ==
    IF Len(cts) = 0 THEN d
    ELSE populate_initial_data(PopulateModel(d, Head(cts), name, default),
                               name, default, Tail(cts))

(***************************************************************************)
(* remove_stale_data(self, content_types)                                  *)
(***************************************************************************)
\* instances = model.objects.filter(custom_field_data__<name>__isnull=False)
RemoveInstances(d, model, name) ==
    {i \in Objects(model) : KeyIsNotNull(d[i], name)}
\* for instance in instances: del(instance.custom_field_data[self.name])
RemoveObjs(d, model, name) ==
    [i \in RemoveInstances(d, model, name) |-> DelKey(d[i], name)]
RemoveModel(d, model, name) ==
    bulk_update(d, RemoveObjs(d, model, name))

RECURSIVE remove_stale_data(_, _, _)
remove_stale_data(d, name, cts) ==
    IF Len(cts) = 0 THEN d
    ELSE remove_stale_data(RemoveModel(d, Head(cts), name), name, Tail(cts))

(***************************************************************************)
(* rename_object_data(self, old_name, new_name); the loop runs over        *)
(* self.content_types.all().                                               *)
(***************************************************************************)
\* instances = model.objects.filter(custom_field_data__<old_name>__isnull=False)
RenameInstances(d, model, old) ==
    {i \in Objects(model) : KeyIsNotNull(d[i], old)}
\* Mutant: the value is copied to the new key and the old key is nulled
\* instead of popped.
RenameKeyNullOld(m, old, new) == SetKey(SetKey(m, new, m[old]), old, None)
\* Mutant: the value is copied to the new key and the old key is kept.
RenameKeyCopy(m, old, new) == SetKey(m, new, m[old])
\* instance.custom_field_data[new_name] = instance.custom_field_data.pop(old_name)
RenameKey(m, old, new) == SetKey(DelKey(m, old), new, m[old])
RenameObjs(d, model, old, new) ==
    [i \in RenameInstances(d, model, old) |-> RenameKey(d[i], old, new)]
RenameModel(d, model, old, new) ==
    bulk_update(d, RenameObjs(d, model, old, new))

RECURSIVE rename_object_data(_, _, _, _)
rename_object_data(d, cts, old, new) ==
    IF Len(cts) = 0 THEN d
    ELSE rename_object_data(RenameModel(d, Head(cts), old, new), Tail(cts), old, new)

(***************************************************************************)
(* Specification Spec: the three bulk operations called one after the      *)
(* other, each running to completion, on a store holding arbitrary data.   *)
(***************************************************************************)
Range(s) == {s[n] : n \in 1..Len(s)}

NoCall == [op |-> "none", name |-> "", default |-> None, cts |-> <<>>,
           old |-> "", new |-> ""]
NoField == [type |-> "text"]

\* The variables of the other specifications, at rest.
IdleRun ==
    /\ pc = <<>>
    /\ job = <<>>
    /\ idx = 0
    /\ snap = <<>>
    /\ data0 = <<>>
    /\ crashes = 0
    /\ partial = FALSE
    /\ events = <<>>
IdlePure ==
    /\ cf = NoField
    /\ call = NoCall
    /\ result = "none"
IdleSync ==
    /\ before = <<>>
    /\ last = NoCall
    /\ repeat = "no"
    /\ afterPopulate = FALSE

runVars == <<pc, job, idx, snap, data0, crashes, partial, events>>
pureVars == <<cf, call, result>>
syncVars == <<before, last, repeat, afterPopulate>>

Init ==
    /\ data \in [Instances -> FieldData]
    /\ before = data
    /\ last = NoCall
    /\ repeat = "no"
    /\ afterPopulate = FALSE
    /\ IdleRun
    /\ IdlePure

\* Whether this call repeats the previous one, and whether that one changed the store.
Repeats(c) == IF last # c THEN "no" ELSE IF data # before THEN "changed" ELSE "noop"

Populate(name, default, cts) ==
    LET c == [op |-> "populate", name |-> name, default |-> default, cts |-> cts,
              old |-> "", new |-> ""]
    IN /\ data' = populate_initial_data(data, name, default, cts)
       /\ before' = data
       /\ last' = c
       /\ repeat' = Repeats(c)
       /\ afterPopulate' = FALSE
       /\ UNCHANGED <<runVars, pureVars>>

Remove(name, cts) ==
    LET c == [op |-> "remove", name |-> name, default |-> None, cts |-> cts,
              old |-> "", new |-> ""]
    IN /\ data' = remove_stale_data(data, name, cts)
       /\ before' = data
       /\ last' = c
       /\ repeat' = Repeats(c)
       /\ afterPopulate' = (last.op = "populate" /\ last.name = name /\ last.cts = cts)
       /\ UNCHANGED <<runVars, pureVars>>

\* cts is self.content_types, the types the field is assigned to.
Rename(cts, old, new) ==
    LET c == [op |-> "rename", name |-> "", default |-> None, cts |-> cts,
              old |-> old, new |-> new]
    IN /\ data' = rename_object_data(data, cts, old, new)
       /\ before' = data
       /\ last' = c
       /\ repeat' = Repeats(c)
       /\ afterPopulate' = FALSE
       /\ UNCHANGED <<runVars, pureVars>>

Next ==
    \/ \E name \in FieldNames, default \in JsonValues, cts \in ContentTypeLists :
          Populate(name, default, cts)
    \/ \E name \in FieldNames, cts \in ContentTypeLists : Remove(name, cts)
    \/ \E cts \in AssignedLists, old \in FieldNames, new \in FieldNames :
          Rename(cts, old, new)

Spec == Init /\ [][Next]_vars

HasKey(m, k) == k \in DOMAIN m
InTypes(i, cts) == ModelOf(i) \in Range(cts)

(***************************************************************************)
(* C1: after populate_initial_data(def, types) every instance of the given *)
(* types holds def.default under def.name (a null default included), and   *)
(* after remove_stale_data(def, types) called right after it no instance   *)
(* of those types holds the key def.name.                                  *)
(***************************************************************************)
C1_RoundTrip ==
    /\ last.op = "populate" =>
          \A i \in Instances : InTypes(i, last.cts) =>
              /\ HasKey(data[i], last.name)
              /\ data[i][last.name] = last.default
    /\ (last.op = "remove" /\ afterPopulate) =>
          \A i \in Instances : InTypes(i, last.cts) => ~HasKey(data[i], last.name)

\* The round trip was run with a null default on instances that held the key.
C1_Witness ==
    /\ last.op = "remove"
    /\ afterPopulate
    /\ \E i \in Instances :
          /\ InTypes(i, last.cts)
          /\ HasKey(before[i], last.name)
          /\ before[i][last.name] = None
          /\ ~HasKey(data[i], last.name)

(***************************************************************************)
(* C2 (as claimed): after rename_object_data(def, old, new) every instance *)
(* of an assigned type that held old holds the former value under new, no  *)
(* longer holds old, has every other key unchanged and as many keys as     *)
(* before; instances of types that are not assigned are not modified.      *)
(***************************************************************************)
C2_RenameLaw ==
    last.op = "rename" =>
        \A i \in Instances :
            /\ (InTypes(i, last.cts) /\ HasKey(before[i], last.old)) =>
                  /\ HasKey(data[i], last.new)
                  /\ data[i][last.new] = before[i][last.old]
                  /\ ~HasKey(data[i], last.old)
                  /\ \A k \in Keys \ {last.old} :
                        (HasKey(before[i], k) /\ k # last.new) =>
                            (HasKey(data[i], k) /\ data[i][k] = before[i][k])
                  /\ \A k \in Keys \ {last.old, last.new} :
                        HasKey(data[i], k) => HasKey(before[i], k)
                  /\ \A k \in Keys \ {last.old} :
                        HasKey(before[i], k) => data[i][k] = before[i][k]
                  /\ Cardinality(DOMAIN data[i]) = Cardinality(DOMAIN before[i])
            /\ ~InTypes(i, last.cts) => data[i] = before[i]

(***************************************************************************)
(* C2 (amended): after rename_object_data(def, old, new) every instance of *)
(* an assigned type that held old holds the former value under new; old is *)
(* removed unless new = old; every key other than old and new is           *)
(* unchanged; the number of keys is unchanged unless the instance already  *)
(* held another key new, whose value is then overwritten and the number of *)
(* keys drops by one.  Instances of assigned types that did not hold old,  *)
(* and instances of types that are not assigned, are not modified.         *)
(***************************************************************************)
C2_RenameLawAmended ==
    last.op = "rename" =>
        \A i \in Instances :
            /\ (InTypes(i, last.cts) /\ HasKey(before[i], last.old)) =>
                  /\ HasKey(data[i], last.new)
                  /\ data[i][last.new] = before[i][last.old]
                  /\ last.new # last.old => ~HasKey(data[i], last.old)
                  /\ \A k \in Keys \ {last.old, last.new} :
                        /\ HasKey(data[i], k) <=> HasKey(before[i], k)
                        /\ HasKey(before[i], k) => data[i][k] = before[i][k]
                  /\ Cardinality(DOMAIN data[i]) =
                        IF last.new # last.old /\ HasKey(before[i], last.new)
                        THEN Cardinality(DOMAIN before[i]) - 1
                        ELSE Cardinality(DOMAIN before[i])
            /\ (InTypes(i, last.cts) /\ ~HasKey(before[i], last.old)) =>
                  data[i] = before[i]
            /\ ~InTypes(i, last.cts) => data[i] = before[i]

\* A rename moved a value next to an untouched other key, while an instance
\* of a type that is not assigned held the old key too.
C2_Witness ==
    /\ last.op = "rename"
    /\ last.old # last.new
    /\ \E i \in Instances :
          /\ InTypes(i, last.cts)
          /\ HasKey(before[i], last.old)
          /\ ~HasKey(before[i], last.new)
          /\ \E k \in Keys \ {last.old, last.new} : HasKey(before[i], k)
          /\ before[i][last.old] # None
          /\ data[i] # before[i]
    /\ \E j \in Instances :
          /\ ~InTypes(j, last.cts)
          /\ HasKey(before[j], last.old)

(***************************************************************************)
(* C3: each of the three operations is idempotent: the same operation      *)
(* called again with the same arguments right after it completed changes   *)
(* no instance's custom_field_data.                                        *)
(***************************************************************************)
C3_Idempotent == repeat # "no" => data = before

\* Each operation was repeated after a first call that did change the store.
C3_Witness ==
    /\ repeat = "changed"
    /\ last.op = "rename"
    /\ last.old # last.new
C3_WitnessPopulate == repeat = "changed" /\ last.op = "populate"
C3_WitnessRemove == repeat = "changed" /\ last.op = "remove"

(***************************************************************************)
(* C4 (as claimed): populate_initial_data writes def.default only into     *)
(* instances that do not hold def.name yet: an instance that holds a value *)
(* under def.name keeps it, and no key other than def.name changes.        *)
(***************************************************************************)
C4_PopulateKeepsExisting ==
    last.op = "populate" =>
        \A i \in Instances :
            /\ HasKey(before[i], last.name) => data[i] = before[i]
            /\ \A k \in Keys \ {last.name} :
                  /\ HasKey(data[i], k) <=> HasKey(before[i], k)
                  /\ HasKey(before[i], k) => data[i][k] = before[i][k]

(***************************************************************************)
(* One call of a bulk operation as a record, and the operation it names:   *)
(* in full (OpRun), or one pass of its loop over content types: the        *)
(* objects read and mutated in memory (OpObjs), then written (OpModel).    *)
(***************************************************************************)
PopulateCall(name, default, cts) ==
    [op |-> "populate", name |-> name, default |-> default, cts |-> cts,
     old |-> "", new |-> ""]
RemoveCall(name, cts) ==
    [op |-> "remove", name |-> name, default |-> None, cts |-> cts,
     old |-> "", new |-> ""]
RenameCall(cts, old, new) ==
    [op |-> "rename", name |-> "", default |-> None, cts |-> cts,
     old |-> old, new |-> new]

OpRun(c, d) ==
    CASE c.op = "populate" -> populate_initial_data(d, c.name, c.default, c.cts)
      [] c.op = "remove" -> remove_stale_data(d, c.name, c.cts)
      [] c.op = "rename" -> rename_object_data(d, c.cts, c.old, c.new)
OpObjs(c, d, model) ==
    CASE c.op = "populate" -> PopulateObjs(d, model, c.name, c.default)
      [] c.op = "remove" -> RemoveObjs(d, model, c.name)
      [] c.op = "rename" -> RenameObjs(d, model, c.old, c.new)
OpModel(c, d, model) == bulk_update(d, OpObjs(c, d, model))

(***************************************************************************)
(* Specification SpecRetry: one bulk operation that can be interrupted     *)
(* between the bulk_update calls of its loop (each bulk_update runs its    *)
(* batches in one transaction, so an interruption inside it persists       *)
(* nothing of it) and is then called again from the start with the same    *)
(* arguments.                                                              *)
(***************************************************************************)
RetryLists == {<<"site", "device">>, <<"device", "site">>}
RetryCalls ==
    {PopulateCall("a", default, cts) : default \in JsonValues, cts \in RetryLists}
    \cup {RemoveCall("a", cts) : cts \in RetryLists}
    \cup {RenameCall(cts, "a", new) : cts \in RetryLists, new \in FieldNames}

InitRetry ==
    /\ data \in [Instances -> FieldData]
    /\ data0 = data
    /\ job \in RetryCalls
    /\ idx = 0
    /\ pc = "run"
    /\ crashes = 0
    /\ partial = FALSE
    /\ snap = <<>>
    /\ events = <<>>
    /\ IdleSync
    /\ IdlePure

\* One pass of the loop: the instances of the next content type are read,
\* mutated and written.
RetryStep ==
    /\ pc = "run"
    /\ idx < Len(job.cts)
    /\ data' = OpModel(job, data, job.cts[idx + 1])
    /\ idx' = idx + 1
    /\ UNCHANGED <<pc, job, snap, data0, crashes, partial, events, syncVars, pureVars>>

\* The loop is over: the operation returns.
RetryFinish ==
    /\ pc = "run"
    /\ idx = Len(job.cts)
    /\ pc' = "done"
    /\ UNCHANGED <<data, job, idx, snap, data0, crashes, partial, events, syncVars, pureVars>>

\* The operation is interrupted and called again from the start.
RetryCrash ==
    /\ pc = "run"
    /\ crashes < MaxCrashes
    /\ crashes' = crashes + 1
    /\ partial' = (partial \/ (0 < idx /\ idx < Len(job.cts)))
    /\ idx' = 0
    /\ UNCHANGED <<data, pc, job, snap, data0, events, syncVars, pureVars>>

NextRetry == RetryStep \/ RetryFinish \/ RetryCrash

SpecRetry == InitRetry /\ [][NextRetry]_vars

(***************************************************************************)
(* C5: an operation interrupted after some but not all of its writes were  *)
(* persisted and then called again from the start, with no resume cursor,  *)
(* ends in the state one uninterrupted call on the original store ends in. *)
(***************************************************************************)
C5_RetryConverges == pc = "done" => data = OpRun(job, data0)

\* A call completed after an interruption that left part of its writes
\* persisted, and the operation did change the store.
C5_Witness ==
    /\ pc = "done"
    /\ partial
    /\ data # data0
    /\ \E i \in Instances : ModelOf(i) = job.cts[1] /\ data[i] # data0[i]

(***************************************************************************)
(* Specification SpecConc: two bulk operations of two different fields     *)
(* ("a" and "b") run concurrently on the same content type.  Each reads    *)
(* the instances its query selects and mutates their custom_field_data in  *)
(* memory (the for loop), then writes them (bulk_update); nothing locks    *)
(* the rows in between.                                                    *)
(***************************************************************************)
Procs == {1, 2}
ConcType == "site"
ConcCalls(p) ==
    LET name == IF p = 1 THEN "a" ELSE "b"
    IN {PopulateCall(name, default, <<ConcType>>) : default \in JsonValues}
       \cup {RemoveCall(name, <<ConcType>>)}
       \cup {RenameCall(<<ConcType>>, name, name)}
       \cup (IF p = 1 THEN {RenameCall(<<ConcType>>, name, "c")} ELSE {})

InitConc ==
    /\ data \in {d \in [Instances -> FieldData] :
                    \A i \in Instances : ModelOf(i) # ConcType => DOMAIN d[i] = {}}
    /\ data0 = data
    /\ job \in {j \in [Procs -> UNION {ConcCalls(p) : p \in Procs}] :
                    \A p \in Procs : j[p] \in ConcCalls(p)}
    /\ pc = [p \in Procs |-> "read"]
    /\ snap = [p \in Procs |-> <<>>]
    /\ events = <<>>
    /\ idx = 0
    /\ crashes = 0
    /\ partial = FALSE
    /\ IdleSync
    /\ IdlePure

\* instances = model.objects.filter(...); for instance in instances: ...
ConcRead(p) ==
    /\ pc[p] = "read"
    /\ snap' = [snap EXCEPT ![p] = OpObjs(job[p], data, ConcType)]
    /\ pc' = [pc EXCEPT ![p] = "write"]
    /\ events' = Append(events, <<"read", p>>)
    /\ UNCHANGED <<data, job, idx, data0, crashes, partial, syncVars, pureVars>>

\* model.objects.bulk_update(instances, ['custom_field_data'], batch_size=100)
ConcWrite(p) ==
    /\ pc[p] = "write"
    /\ data' = bulk_update(data, snap[p])
    /\ pc' = [pc EXCEPT ![p] = "done"]
    /\ events' = Append(events, <<"write", p>>)
    /\ UNCHANGED <<snap, job, idx, data0, crashes, partial, syncVars, pureVars>>

NextConc == \E p \in Procs : ConcRead(p) \/ ConcWrite(p)

SpecConc == InitConc /\ [][NextConc]_vars

Pos(e) == CHOOSE n \in 1..Len(events) : events[n] = e
Happened(e) == \E n \in 1..Len(events) : events[n] = e
\* p read before q wrote, and wrote after q did: p's write is stale.
StaleWrite(p, q) ==
    /\ Happened(<<"write", p>>)
    /\ Happened(<<"write", q>>)
    /\ Pos(<<"read", p>>) < Pos(<<"write", q>>)
    /\ Pos(<<"write", q>>) < Pos(<<"write", p>>)
AllDone == \A p \in Procs : pc[p] = "done"
Serial12 == OpRun(job[2], OpRun(job[1], data0))
Serial21 == OpRun(job[1], OpRun(job[2], data0))
\* Instance i ends as in neither serial order of the two operations.
MatchesNeither(i) == data[i] # Serial12[i] /\ data[i] # Serial21[i]

(***************************************************************************)
(* C10: two operations of different fields running concurrently on the     *)
(* same content type are not serializable.  Whenever one of them writes    *)
(* the objects it read before the other's write, every instance both       *)
(* selected and the other changed ends with the other's change overwritten *)
(* and its custom_field_data matching neither serial order.                *)
(***************************************************************************)
C10_LostUpdate ==
    \A p \in Procs : \A q \in Procs \ {p} :
        (AllDone /\ StaleWrite(p, q)) =>
            \A i \in (DOMAIN snap[p]) \cap (DOMAIN snap[q]) :
                snap[q][i] # data0[i] =>
                    /\ data[i] = snap[p][i]
                    /\ MatchesNeither(i)

\* Such an interleaving happened: both operations are done and an instance
\* matches neither serial order.
C10_Witness ==
    /\ AllDone
    /\ \E p \in Procs : \E q \in Procs \ {p} : StaleWrite(p, q)
    /\ \E i \in Instances : MatchesNeither(i)

(***************************************************************************)
(* Values.  default and the values handed to validate are JSON values as   *)
(* Python holds them: None, str, int, bool or a list of str.               *)
(***************************************************************************)
PyNone == [t |-> "none", s |-> "", i |-> 0, l |-> <<>>]
PyStr(x) == [t |-> "str", s |-> x, i |-> 0, l |-> <<>>]
PyInt(x) == [t |-> "int", s |-> "", i |-> x, l |-> <<>>]
PyBool(x) == [t |-> "bool", s |-> "", i |-> IF x THEN 1 ELSE 0, l |-> <<>>]
PyList(x) == [t |-> "list", s |-> "", i |-> 0, l |-> x]

\* a == b: bool is an int (True == 1, False == 0); otherwise same type, same content.
PyEq(a, b) ==
    IF a.t \in {"int", "bool"} /\ b.t \in {"int", "bool"} THEN a.i = b.i ELSE a = b
\* x in xs, xs a list of values
PyIn(x, xs) == \E n \in 1..Len(xs) : PyEq(x, xs[n])
\* bool(x)
Truthy(x) ==
    CASE x.t = "none" -> FALSE
      [] x.t = "str" -> x.s # ""
      [] x.t \in {"int", "bool"} -> x.i # 0
      [] x.t = "list" -> Len(x.l) > 0
\* the list of str values of a choices array
StrValues(l) == [n \in 1..Len(l) |-> PyStr(l[n])]

\* str(x)
IntStr(n) ==
    CASE n = 0 -> "0" [] n = 1 -> "1" [] n = 5 -> "5" [] n = 11 -> "11"
ListStr(l) ==
    CASE l = <<>> -> "[]"
      [] l = <<"a">> -> "['a']"
      [] l = <<"a", "z">> -> "['a', 'z']"
PyToStr(x) ==
    CASE x.t = "none" -> PyStr("None")
      [] x.t = "str" -> x
      [] x.t = "int" -> PyStr(IntStr(x.i))
      [] x.t = "bool" -> PyStr(IF x.i = 1 THEN "True" ELSE "False")
      [] x.t = "list" -> PyStr(ListStr(x.l))

\* re.match(pattern, s): the pattern matches at the start of s.
ReMatch(pattern, s) ==
    CASE pattern = "^[A-Z]{3}$" -> s \in {"ABC"}
      [] OTHER -> TRUE
\* datetime.strptime(s, '%Y-%m-%d') does not raise ValueError
IsDate(s) == s \in {"2020-01-01"}
\* set(s) of a str: its characters
Chars(s) ==
    CASE s = "a" -> {"a"}
      [] s = "z" -> {"z"}
      [] s = "5" -> {"5"}
      [] s = "ABC" -> {"A", "B", "C"}
      [] s = "abc" -> {"a", "b", "c"}
      [] s = "2020-01-01" -> {"2", "0", "-", "1"}
      [] OTHER -> {}

(***************************************************************************)
(* The CustomField under validation and the inputs the model draws.        *)
(***************************************************************************)
FieldTypes == {"text", "integer", "boolean", "date", "url", "select", "multiselect"}
Defaults ==
    {PyNone, PyStr(""), PyStr("a"), PyStr("z"), PyStr("ABC"), PyInt(0), PyInt(5),
     PyInt(11), PyBool(TRUE), PyBool(FALSE), PyList(<<"a">>), PyList(<<"a", "z">>)}
Values == Defaults \cup {PyStr("abc"), PyStr("2020-01-01"), PyList(<<>>)}
\* validation_minimum / validation_maximum: <<>> is None, <<n>> is n
Minimums == {<<>>, <<1>>}
Maximums == {<<>>, <<10>>}
Regexes == {"", "^[A-Z]{3}$"}
ChoiceLists == {PyNone, PyList(<<>>), PyList(<<"a">>), PyList(<<"a", "b">>)}
CustomFields ==
    [type : FieldTypes, required : BOOLEAN, default : Defaults,
     validation_minimum : Minimums, validation_maximum : Maximums,
     validation_regex : Regexes, choices : ChoiceLists]

\* What a call returns or raises.
NoFormField == [kind |-> "", required |-> FALSE, initial |-> PyNone, choices |-> <<>>,
                min_value |-> <<>>, max_value |-> <<>>, regex |-> ""]
Ok == [outcome |-> "ok", attr |-> "", message |-> "", field |-> NoFormField]
Raise(message) ==
    [outcome |-> "ValidationError", attr |-> "", message |-> message, field |-> NoFormField]
RaiseOn(attr, message) ==
    [outcome |-> "ValidationError", attr |-> attr, message |-> message, field |-> NoFormField]
TypeError == [outcome |-> "TypeError", attr |-> "", message |-> "", field |-> NoFormField]
Returns(f) == [outcome |-> "ok", attr |-> "", message |-> "", field |-> f]

(***************************************************************************)
(* validate(self, value)                                                   *)
(***************************************************************************)
\* Mutant: only None counts as empty.
IsEmptyNoneOnly(value) == value = PyNone
\* value in [None, '']
IsEmpty(value) == PyEq(value, PyNone) \/ PyEq(value, PyStr(""))

ValidateText(self, value) ==
    IF value.t # "str" THEN Raise("Value must be a string.")
    ELSE IF self.validation_regex # "" /\ ~ReMatch(self.validation_regex, value.s)
    THEN Raise("Value must match regex")
    ELSE Ok
ValidateInteger(self, value) ==
    IF value.t # "int" THEN Raise("Value must be an integer.")
    ELSE IF self.validation_minimum # <<>> /\ value.i < self.validation_minimum[1]
    THEN Raise("Value must be at least the minimum")
    ELSE IF self.validation_maximum # <<>> /\ value.i > self.validation_maximum[1]
    THEN Raise("Value must not exceed the maximum")
    ELSE Ok
ValidateBoolean(self, value) ==
    IF ~PyIn(value, <<PyBool(TRUE), PyBool(FALSE), PyInt(1), PyInt(0)>>)
    THEN Raise("Value must be true or false.")
    ELSE Ok
\* A JSON value is never a date object: strptime is always tried, and raises
\* TypeError on anything but a str.
ValidateDate(self, value) ==
    IF value.t # "str" THEN TypeError
    ELSE IF ~IsDate(value.s) THEN Raise("Date values must be in the format YYYY-MM-DD.")
    ELSE Ok
ValidateSelect(self, value) ==
    IF self.choices = PyNone THEN TypeError
    ELSE IF ~PyIn(value, StrValues(self.choices.l)) THEN Raise("Invalid choice")
    ELSE Ok
ValidateMultiselect(self, value) ==
    IF value.t \notin {"str", "list"} THEN TypeError
    ELSE IF self.choices = PyNone THEN TypeError
    ELSE LET elems == IF value.t = "str" THEN Chars(value.s)
                      ELSE {value.l[n] : n \in 1..Len(value.l)}
             avail == {self.choices.l[n] : n \in 1..Len(self.choices.l)}
         IN IF ~(elems \subseteq avail) THEN Raise("Invalid choice(s)") ELSE Ok

validate(self, value) ==
    IF ~IsEmpty(value)
    THEN CASE self.type = "text" -> ValidateText(self, value)
           [] self.type = "integer" -> ValidateInteger(self, value)
           [] self.type = "boolean" -> ValidateBoolean(self, value)
           [] self.type = "date" -> ValidateDate(self, value)
           [] self.type = "select" -> ValidateSelect(self, value)
           [] self.type = "multiselect" -> ValidateMultiselect(self, value)
           [] OTHER -> Ok
    ELSE IF self.required THEN Raise("Required field cannot be empty.")
    ELSE Ok

(***************************************************************************)
(* clean(self): the first check that raises decides the outcome.           *)
(***************************************************************************)
\* default_value = str(self.default) if self.type == TYPE_TEXT else self.default
DefaultValue(self) == IF self.type = "text" THEN PyToStr(self.default) ELSE self.default

\* Mutant: the default is validated only when it is truthy.
CleanDefaultTruthy(self) ==
    IF Truthy(self.default)
    THEN LET r == validate(self, DefaultValue(self))
         IN IF r.outcome = "ValidationError"
            THEN RaiseOn("default", "Invalid default value") ELSE r
    ELSE Ok
\* Validate the field's default value (if any)
CleanDefault(self) ==
    IF self.default # PyNone
    THEN LET r == validate(self, DefaultValue(self))
         IN IF r.outcome = "ValidationError"
            THEN RaiseOn("default", "Invalid default value") ELSE r
    ELSE Ok

\* len(self.choices) < 2, where the code evaluates it
TooFewChoices(self) == Len(self.choices.l) < 2

clean(self) ==
    LET d == CleanDefault(self)
    IN IF d.outcome # "ok" THEN d
       ELSE IF self.validation_minimum # <<>> /\ self.type # "integer"
       THEN RaiseOn("validation_minimum", "A minimum value may be set only for numeric fields")
       ELSE IF self.validation_maximum # <<>> /\ self.type # "integer"
       THEN RaiseOn("validation_maximum", "A maximum value may be set only for numeric fields")
       ELSE IF self.validation_regex # "" /\ self.type \notin {"text", "url"}
       THEN RaiseOn("validation_regex",
                    "Regular expression validation is supported only for text and URL fields")
       ELSE IF Truthy(self.choices) /\ self.type \notin {"select", "multiselect"}
       THEN RaiseOn("choices", "Choices may be set only for custom selection fields.")
       ELSE IF self.type = "select" /\ Truthy(self.choices) /\ TooFewChoices(self)
       THEN RaiseOn("choices", "Selection fields must specify at least two choices.")
       ELSE IF self.type = "select" /\ Truthy(self.default)
       THEN IF self.choices = PyNone THEN TypeError
            ELSE IF ~PyIn(self.default, StrValues(self.choices.l))
            THEN RaiseOn("default", "The specified default value is not listed as an available choice.")
            ELSE Ok
       ELSE Ok

(***************************************************************************)
(* to_form_field(self, set_initial, enforce_required, for_csv_import)      *)
(***************************************************************************)
\* utilities.forms.add_blank_choice: a blank option (value None) in front.
add_blank_choice(choices) == <<PyNone>> \o choices

\* default_choice = self.default if self.default in self.choices else None
DefaultChoice(self) ==
    IF PyIn(self.default, StrValues(self.choices.l)) THEN self.default ELSE PyNone

SelectField(self, set_initial, required, for_csv_import) ==
    LET choices == StrValues(self.choices.l)
        default_choice == DefaultChoice(self)
        initial0 == IF set_initial THEN self.default ELSE PyNone
        initial == IF set_initial /\ Truthy(default_choice) THEN default_choice ELSE initial0
    IN [kind |-> IF for_csv_import THEN "CSVChoiceField"
                 ELSE IF self.type = "select" THEN "ChoiceField" ELSE "MultipleChoiceField",
        required |-> required,
        initial |-> initial,
        choices |-> IF ~required \/ default_choice = PyNone
                    THEN add_blank_choice(choices) ELSE choices,
        min_value |-> <<>>, max_value |-> <<>>, regex |-> ""]

to_form_field(self, set_initial, enforce_required, for_csv_import) ==
    LET initial == IF set_initial THEN self.default ELSE PyNone
        required == IF enforce_required THEN self.required ELSE FALSE
        plain(kind) == [kind |-> kind, required |-> required, initial |-> initial,
                        choices |-> <<>>, min_value |-> <<>>, max_value |-> <<>>,
                        regex |-> ""]
    IN CASE self.type = "integer" ->
              Returns([plain("IntegerField") EXCEPT
                          !.min_value = self.validation_minimum,
                          !.max_value = self.validation_maximum])
         [] self.type = "boolean" ->
              Returns([plain("NullBooleanField") EXCEPT
                          !.choices = <<PyNone, PyBool(TRUE), PyBool(FALSE)>>])
         [] self.type = "date" -> Returns(plain("DateField"))
         [] self.type \in {"select", "multiselect"} ->
              IF self.choices = PyNone THEN TypeError
              ELSE Returns(SelectField(self, set_initial, required, for_csv_import))
         [] self.type = "url" -> Returns(plain("LaxURLField"))
         [] OTHER ->
              Returns([plain("CharField") EXCEPT !.regex = self.validation_regex])

(***************************************************************************)
(* Specification SpecPure: the pure methods called on a CustomField with   *)
(* attributes drawn from the sets above.                                   *)
(***************************************************************************)
PureCall(op, value, set_initial, enforce_required, for_csv_import) ==
    [op |-> op, value |-> value, set_initial |-> set_initial,
     enforce_required |-> enforce_required, for_csv_import |-> for_csv_import]

InitPure ==
    /\ cf \in CustomFields
    /\ call = PureCall("none", PyNone, FALSE, FALSE, FALSE)
    /\ result = Ok
    /\ data = <<>>
    /\ IdleSync
    /\ IdleRun

Clean ==
    /\ call' = PureCall("clean", PyNone, FALSE, FALSE, FALSE)
    /\ result' = clean(cf)
    /\ UNCHANGED <<cf, data, syncVars, runVars>>

Validate(value) ==
    /\ call' = PureCall("validate", value, FALSE, FALSE, FALSE)
    /\ result' = validate(cf, value)
    /\ UNCHANGED <<cf, data, syncVars, runVars>>

ToFormField(set_initial, enforce_required, for_csv_import) ==
    /\ call' = PureCall("to_form_field", PyNone, set_initial, enforce_required, for_csv_import)
    /\ result' = to_form_field(cf, set_initial, enforce_required, for_csv_import)
    /\ UNCHANGED <<cf, data, syncVars, runVars>>

NextPure ==
    \/ Clean
    \/ \E value \in Values : Validate(value)
    \/ \E set_initial \in BOOLEAN, enforce_required \in BOOLEAN, for_csv_import \in BOOLEAN :
          ToFormField(set_initial, enforce_required, for_csv_import)

SpecPure == InitPure /\ [][NextPure]_vars

(***************************************************************************)
(* C6 (as claimed): a field accepted by clean has a default that is absent *)
(* or passes validate(def, default), for every field type.                 *)
(***************************************************************************)
C6_DefaultValid ==
    (call.op = "clean" /\ result.outcome = "ok") =>
        (cf.default = PyNone \/ validate(cf, cf.default).outcome = "ok")

(***************************************************************************)
(* C6 (amended): a field accepted by clean has a default that is absent or *)
(* passes validate in the form clean validates it: converted with str()    *)
(* for a text field, as it is for every other field type.                  *)
(***************************************************************************)
C6_DefaultValidAmended ==
    (call.op = "clean" /\ result.outcome = "ok") =>
        \/ cf.default = PyNone
        \/ /\ cf.type = "text"
           /\ validate(cf, PyToStr(cf.default)).outcome = "ok"
        \/ /\ cf.type # "text"
           /\ validate(cf, cf.default).outcome = "ok"

\* clean accepted a text field with a default that is not a str, and an
\* integer field with a default its bounds admit.
C6_Witness ==
    /\ call.op = "clean"
    /\ result.outcome = "ok"
    /\ cf.type = "text"
    /\ cf.default.t = "int"
    /\ validate(cf, cf.default).outcome = "ValidationError"
C6_WitnessInteger ==
    /\ call.op = "clean"
    /\ result.outcome = "ok"
    /\ cf.type = "integer"
    /\ cf.default = PyInt(5)
    /\ cf.validation_minimum # <<>>

(***************************************************************************)
(* C7 (as claimed): a select field with fewer than two choices, none at    *)
(* all included, is rejected by clean with the error on choices.           *)
(***************************************************************************)
NumChoices(self) == IF self.choices = PyNone THEN 0 ELSE Len(self.choices.l)
C7_SelectNeedsTwoChoices ==
    (call.op = "clean" /\ cf.type = "select" /\ NumChoices(cf) < 2) =>
        (result.outcome = "ValidationError" /\ result.attr = "choices")

(***************************************************************************)
(* C8: for every field type, validate on an absent (None) or empty ('')    *)
(* value raises "Required field cannot be empty." if and only if the field *)
(* is required, and otherwise succeeds, whatever the type's own check      *)
(* would have said.                                                        *)
(***************************************************************************)
C8_EmptyValue ==
    (call.op = "validate" /\ call.value \in {PyNone, PyStr("")}) =>
        /\ cf.required =>
              /\ result.outcome = "ValidationError"
              /\ result.message = "Required field cannot be empty."
        /\ ~cf.required => result = Ok

\* validate succeeded on '' for an optional field whose type-specific check
\* rejects a str or cannot even run (a select field without choices).
C8_Witness ==
    /\ call.op = "validate"
    /\ call.value = PyStr("")
    /\ ~cf.required
    /\ cf.type = "select"
    /\ cf.choices = PyNone
    /\ result = Ok
C8_WitnessRequired ==
    /\ call.op = "validate"
    /\ call.value = PyNone
    /\ cf.required
    /\ cf.type = "integer"
    /\ result.outcome = "ValidationError"

(***************************************************************************)
(* C9 (as claimed): the form field's initial value is def.default exactly  *)
(* when set_initial is true and the field is not a selection type or the   *)
(* default is one of def.choices; in every other case it is absent.        *)
(***************************************************************************)
C9_InitialValue ==
    (call.op = "to_form_field" /\ result.outcome = "ok") =>
        result.field.initial =
            IF /\ call.set_initial
               /\ \/ cf.type \notin {"select", "multiselect"}
                  \/ PyIn(cf.default, StrValues(cf.choices.l))
            THEN cf.default
            ELSE PyNone

====
